---------------------------- MODULE Spec2Model ----------------------------
(***************************************************************************)
(* AI Study Buddy (src/project.py): the quiz page and the chat page of the  *)
(* Streamlit app.                                                          *)
(*                                                                         *)
(* Every user interaction re-runs main() from the top; what survives a run *)
(* is st.session_state (quiz_data, user_answers, chat_history) and the     *)
(* state of the keyed radio widgets.  One action of the model is one       *)
(* complete run of the script on one page.                                 *)
(*                                                                         *)
(* Python values are records tagged by t: strings carry their characters   *)
(* as a sequence of one-character strings, so that strip(), replace() and  *)
(* the regular expressions are computed character by character.            *)
(***************************************************************************)
EXTENDS Integers, Sequences, FiniteSets, TLC

VARIABLES quiz_data, user_answers, widgets, screen, run, selections, probe,
          chat_history, chat_run

\* quiz_data     st.session_state.quiz_data: None or the parsed array
\* user_answers  st.session_state.user_answers: a list of str (or None)
\* widgets       the radios of the page, [options, index], by question
\* screen        what the last run rendered
\* run           what the last run was: the click, its model call, the parse
\* selections    how often the user has changed a radio
\* probe         the arguments and result of one call of a pure function
\* chat_history  st.session_state.chat_history: a list of {role, content}
\* chat_run      what the last run of the chat page was and produced
vars == <<quiz_data, user_answers, widgets, screen, run, selections, probe,
          chat_history, chat_run>>

-----------------------------------------------------------------------------
(* Python values *)

None == [t |-> "none"]
Str(s) == [t |-> "str", s |-> s]
Num(n) == [t |-> "num", n |-> n]
List(v) == [t |-> "list", v |-> v]
Dict(items) == [t |-> "dict", items |-> items]

\* Python truthiness of the values `if x:` / `if not x:` is applied to
Truthy(x) ==
    CASE x.t = "none" -> FALSE
      [] x.t = "list" -> x.v # <<>>
      [] x.t = "str" -> x.s # <<>>
      [] x.t = "dict" -> x.items # <<>>
      [] OTHER -> TRUE

Min(a, b) == IF a <= b THEN a ELSE b

-----------------------------------------------------------------------------
(* Helper functions, lines 14-26 *)

IsSpace(c) == c \in {" ", "\n"}

RECURSIVE lstrip(_)
lstrip(s) == IF s # <<>> /\ IsSpace(s[1]) THEN lstrip(Tail(s)) ELSE s

RECURSIVE rstrip(_)
rstrip(s) ==
    IF s # <<>> /\ IsSpace(s[Len(s)]) THEN rstrip(SubSeq(s, 1, Len(s) - 1)) ELSE s

\* str.strip()
strip(s) == rstrip(lstrip(s))

\* str.upper() on the one character group(1) holds
upper(c) ==
    CASE c = "a" -> "A" [] c = "b" -> "B" [] c = "c" -> "C" [] c = "d" -> "D"
      [] OTHER -> c

\* normalize_answer: "" for None and "", else the upper-cased leading A-D of
\* the stripped text, "" when the stripped text does not start with one
normalize_answer(answer) ==
    IF ~Truthy(answer) THEN ""
    ELSE LET s == strip(answer.s)
         IN  IF s # <<>> /\ s[1] \in {"A", "B", "C", "D", "a", "b", "c", "d"}
             THEN upper(s[1]) ELSE ""

RECURSIVE zip_sum(_, _, _)
zip_sum(ua, ca, i) ==
    IF i > Min(Len(ua), Len(ca)) THEN 0
    ELSE (IF ua[i] = ca[i] THEN 1 ELSE 0) + zip_sum(ua, ca, i + 1)

calculate_score_mismatches(user_answers_, correct_answers) ==
    Min(Len(user_answers_), Len(correct_answers))
        - zip_sum(user_answers_, correct_answers, 1)

\* calculate_score: sum(ua == ca for ua, ca in zip(...)); zip stops at the
\* shorter argument and nothing in the body raises
\* a score that counts the entries one list has over the other as matches
calculate_score_padded(user_answers_, correct_answers) ==
    zip_sum(user_answers_, correct_answers, 1)
        + (Len(user_answers_) - Min(Len(user_answers_), Len(correct_answers)))

calculate_score(user_answers_, correct_answers) ==
    zip_sum(user_answers_, correct_answers, 1)

-----------------------------------------------------------------------------
(* Model replies.  A reply is a sequence of tokens: "[" (LB), "]" (RB), a   *)
(* run of prose that is no JSON (W), or one JSON value, already lexed.      *)

LB == [t |-> "lb"]
RB == [t |-> "rb"]
W == [t |-> "word"]

\* a client wrapper that asks a second time when the first request raises
call_gemini_api_retry(outcome) ==
    IF outcome.ok THEN [text |-> outcome.text, errors |-> {}, calls |-> 1]
    ELSE [text |-> <<>>, errors |-> {"API Error"}, calls |-> 2]

\* call_gemini_api, lines 44-53: response.text, or "" after st.error when the
\* client raises.  outcome.ok says whether generate_content returned; calls
\* counts the requests made, the one of line 49 either way.
call_gemini_api(outcome) ==
    IF outcome.ok THEN [text |-> outcome.text, errors |-> {}, calls |-> 1]
    ELSE [text |-> <<>>, errors |-> {"API Error"}, calls |-> 1]

\* where re.search(r'\[.*\]', text, re.DOTALL) matches: from the first "["
\* to the last "]" (greedy), when that "]" comes after the "["
Brackets(text, b) == {i \in 1..Len(text) : text[i] = b}
SetMin(S) == CHOOSE x \in S : \A y \in S : x <= y
SetMax(S) == CHOOSE x \in S : \A y \in S : x >= y

re_search(text) ==
    LET ls == Brackets(text, LB)
        rs == Brackets(text, RB)
    IN  IF ls # {} /\ rs # {} /\ SetMin(ls) < SetMax(rs)
        THEN [found |-> TRUE, group |-> SubSeq(text, SetMin(ls), SetMax(rs))]
        ELSE [found |-> FALSE, group |-> <<>>]

\* The elements of a JSON array from position k of toks up to its closing "]":
\* nested arrays are parsed, prose inside an array is a decode error.
RECURSIVE ParseElems(_, _, _)
ParseElems(toks, k, acc) ==
    IF k > Len(toks) THEN [ok |-> FALSE, val |-> <<>>, next |-> k]
    ELSE CASE toks[k] = RB -> [ok |-> TRUE, val |-> acc, next |-> k + 1]
           [] toks[k] = W -> [ok |-> FALSE, val |-> <<>>, next |-> k]
           [] toks[k] = LB ->
                LET r == ParseElems(toks, k + 1, <<>>)
                IN  IF r.ok THEN ParseElems(toks, r.next, Append(acc, List(r.val)))
                    ELSE r
           [] OTHER -> ParseElems(toks, k + 1, Append(acc, toks[k]))

\* json.loads of a text that starts with "[": the array, or a JSONDecodeError
\* (also for data left over after the array's closing bracket)
json_loads(toks) ==
    LET r == ParseElems(toks, 2, <<>>)
    IN  IF r.ok /\ r.next = Len(toks) + 1
        THEN [ok |-> TRUE, value |-> List(r.val)]
        ELSE [ok |-> FALSE, value |-> None]

\* extract_json with the st.error it shows: the parsed array, or None when
\* nothing matches or json.loads raises (the except branch catches it)
extract_json_run(ai_response) ==
    LET match == re_search(ai_response)
        parsed == json_loads(match.group)
    IN  IF ~match.found THEN [value |-> None, errors |-> {}]
        ELSE IF parsed.ok THEN [value |-> parsed.value, errors |-> {}]
        ELSE [value |-> None, errors |-> {"JSON parsing error"}]

\* a parser that skips what it cannot decode instead of raising
extract_json_lenient(ai_response) ==
    List(SelectSeq(ai_response, LAMBDA tok : tok.t \notin {"lb", "rb", "word"}))

\* extract_json, lines 64-71
extract_json(ai_response) == extract_json_run(ai_response).value

-----------------------------------------------------------------------------
(* len(normalized_answers)*0.7, line 257, in IEEE-754 double arithmetic.    *)
(* 0.7 is the double Mant07 / 2^53; the exact product is kept in three      *)
(* limbs of 20 bits and rounded to 53 significant bits, ties to even.       *)

\* 6305039478318694 = 5734 * 2^40 + 419430 * 2^20 + 419430
Mant07 == <<5734, 419430, 419430>>

RECURSIVE Pow2(_)
Pow2(k) == IF k = 0 THEN 1 ELSE 2 * Pow2(k - 1)

RECURSIVE BitLen(_)
BitLen(n) == IF n = 0 THEN 0 ELSE 1 + BitLen(n \div 2)

Limb == Pow2(20)

\* the double total*0.7 as <<h, m, l>>, standing for (h*2^40 + m*2^20 + l) / 2^53
float_mul_07(total) ==
    LET p0 == total * Mant07[3]
        p1 == total * Mant07[2] + (p0 \div Limb)
        h2 == total * Mant07[1] + (p1 \div Limb)
        l0 == p0 % Limb
        l1 == p1 % Limb
        d == BitLen(h2) - 13
        q == l0 \div Pow2(d)
        r == l0 % Pow2(d)
        up == IF d > 0 /\ (r > Pow2(d - 1) \/ (r = Pow2(d - 1) /\ q % 2 = 1))
              THEN 1 ELSE 0
        n0 == (q + up) * Pow2(d)
        n1 == l1 + (n0 \div Limb)
    IN  IF total = 0 THEN <<0, 0, 0>>
        ELSE <<h2 + (n1 \div Limb), n1 % Limb, n0 % Limb>>

\* score >= x for an int score and a double x: the int is converted exactly
int_ge_float(score, x) ==
    \/ score * 8192 > x[1]
    \/ score * 8192 = x[1] /\ x[2] = 0 /\ x[3] = 0

\* the comparison written with > for >=
feedback_strict(score, total) ==
    IF score = total THEN "perfect"
    ELSE IF score * 8192 > float_mul_07(total)[1] THEN "good"
    ELSE "needs practice"

\* lines 253-261: balloons and "Amazing" / "Great job" / "Keep practicing"
feedback(score, total) ==
    IF score = total THEN "perfect"
    ELSE IF int_ge_float(score, float_mul_07(total)) THEN "good"
    ELSE "needs practice"

-----------------------------------------------------------------------------
(* The quiz page, lines 174-261 *)

\* q[key] for a parsed JSON value q: KeyError on a dict without the key,
\* TypeError on anything that is no dict (str, int, list and None alike)
Keys(q) == {q.items[i].k : i \in 1..Len(q.items)}
Subscript(q, key) ==
    IF q.t # "dict" THEN [exception |-> "TypeError", value |-> None]
    ELSE IF key \notin Keys(q) THEN [exception |-> "KeyError", value |-> None]
    ELSE [exception |-> "none",
          value |-> q.items[CHOOSE i \in 1..Len(q.items) : q.items[i].k = key].v]

\* st.radio(label, options, key=f"q{idx}"): the option the widget holds.  A
\* widget seen for the first time, or with other options than in the run
\* before, starts at its default index 0; with no options it returns None.
radio_index(w, idx, options) ==
    IF idx <= Len(w) /\ w[idx].options = options THEN w[idx].index
    ELSE IF options = <<>> THEN 0 ELSE 1

\* a radio that hands back the label letter of the option only
radio_value_label(options, index) ==
    IF index = 0 THEN None ELSE Str(<<options[index].s[1]>>)

radio_value(options, index) == IF index = 0 THEN None ELSE options[index]

\* lines 210-216: the loop over the questions; an exception ends the run
\* with the widgets rendered and the answers stored so far
RECURSIVE render_questions(_, _, _, _, _)
render_questions(qd, idx, ua, w, rendered) ==
    IF idx > Len(qd) THEN
        [user_answers |-> ua, widgets |-> rendered, exception |-> "none"]
    ELSE
        LET question == Subscript(qd[idx], "question")
            options == Subscript(qd[idx], "options")
            index == radio_index(w, idx, options.value.v)
        IN  IF question.exception # "none" THEN
                [user_answers |-> ua, widgets |-> rendered,
                 exception |-> question.exception]
            ELSE IF options.exception # "none" THEN
                [user_answers |-> ua, widgets |-> rendered,
                 exception |-> options.exception]
            ELSE render_questions(
                    qd, idx + 1,
                    [ua EXCEPT ![idx] = radio_value(options.value.v, index)],
                    w,
                    Append(rendered, [options |-> options.value.v, index |-> index]))

\* str(a) as far as normalize_answer reads it: a str is itself, anything
\* else prints with a leading character that is no letter A-D
DigitChar(n) == <<"0", "1", "2", "3", "4", "5", "6", "7", "8", "9">>[(n % 10) + 1]
str(a) ==
    CASE a.t = "str" -> a.s
      [] a.t = "num" -> <<DigitChar(a.n)>>
      [] a.t = "list" -> <<"[", "]">>
      [] a.t = "dict" -> <<"{", "}">>
      [] OTHER -> <<"N", "o", "n", "e">>

\* .replace(")", "").replace(".", "")
replace_punct(s) == SelectSeq(s, LAMBDA c : c \notin {")", "."})

\* lines 230-232: [list(a.values())[0] for a in correct_answers]
RECURSIVE first_values(_, _, _)
first_values(ca, i, acc) ==
    IF i > Len(ca) THEN [exception |-> "none", value |-> acc]
    ELSE IF ca[i].t # "dict" THEN [exception |-> "AttributeError", value |-> acc]
    ELSE IF ca[i].items = <<>> THEN [exception |-> "IndexError", value |-> acc]
    ELSE first_values(ca, i + 1, Append(acc, ca[i].items[1].v))

\* a key handed on as it came, mappings not unwrapped
flatten_none(correct_answers) ==
    [exception |-> "none", value |-> correct_answers]

flatten(correct_answers) ==
    IF correct_answers[1].t = "dict" THEN first_values(correct_answers, 1, <<>>)
    ELSE [exception |-> "none", value |-> correct_answers]

\* lines 230-235: the normalised answer key of a non-empty correct_answers
answer_key(correct_answers) ==
    LET flat == flatten(correct_answers)
    IN  IF flat.exception # "none"
        THEN [exception |-> flat.exception, value |-> <<>>]
        ELSE [exception |-> "none",
              value |-> [i \in 1..Len(flat.value) |->
                            normalize_answer(Str(replace_punct(str(flat.value[i]))))]]

\* lines 243-248: one result line per question
mark(ua, ca) == IF ua = ca THEN "Correct" ELSE "Wrong"

NoResults == [t |-> "none"]

\* lines 224-261 after the reply ai_answers of the answer-key call
grade(qd, answers, ai_answers) ==
    LET correct_answers == extract_json(ai_answers)
        flat == answer_key(correct_answers.v)
        normalized_answers == flat.value
        letters == [i \in 1..Len(answers) |-> normalize_answer(answers[i])]
        score == calculate_score(letters, normalized_answers)
        shown == Min(Min(Len(letters), Len(normalized_answers)), Len(qd))
    IN  IF ~Truthy(correct_answers) THEN
            [results |-> NoResults, exception |-> "none",
             errors |-> extract_json_run(ai_answers).errors
                        \cup {"Failed to parse AI answers"}]
        ELSE IF flat.exception # "none" THEN
            [results |-> NoResults, exception |-> flat.exception, errors |-> {}]
        ELSE
            [results |->
                [t |-> "results",
                 user_letters |-> letters,
                 correct_letters |-> normalized_answers,
                 marks |-> [i \in 1..shown |-> mark(letters[i], normalized_answers[i])],
                 score |-> score,
                 total |-> Len(normalized_answers),
                 feedback |-> feedback(score, Len(normalized_answers))],
             exception |-> "none", errors |-> {}]

\* what a run leaves on the page: the radios rendered, whether the submit
\* button was reached, the st.error messages, the results block, and the
\* exception that ended the run, if one did
Blank == [questions |-> 0, submit |-> FALSE, errors |-> {},
          results |-> NoResults, exception |-> "none"]

\* how lines 64-68 fare on a reply
ParseKind(text) ==
    IF ~re_search(text).found THEN "no match"
    ELSE IF ~json_loads(re_search(text).group).ok THEN "decode error"
    ELSE "parsed"

\* a guard that tests the notes without stripping them
generating_nostrip(generate_clicked, quiz_text) ==
    generate_clicked /\ quiz_text # <<>>

\* line 183
generating(generate_clicked, quiz_text) ==
    generate_clicked /\ strip(quiz_text) # <<>>

\* a page that stores what it parses from the reply of every run
next_quiz_data_always(generates, text) == extract_json(text)

\* line 200, the only assignment to st.session_state.quiz_data after line 180
next_quiz_data(generates, text) ==
    IF generates THEN extract_json(text) ELSE quiz_data

\* One run of the script on the quiz page, lines 174-261.  w is the state of
\* the radio widgets the browser sends with the run; outcome is what the one
\* model call of the run, if it makes one, comes back with.  The values of
\* the run are bound one after the other, in the order the script computes
\* them.
QuizPage(op, generate_clicked, quiz_text, submit_clicked, outcome, w) ==
    \E generates \in {generating(generate_clicked, quiz_text)} :
    \E reply \in {call_gemini_api(outcome)} :
    \E qd \in {next_quiz_data(generates, reply.text)} :
    \E fresh \in {IF generates /\ Truthy(qd)
                   THEN [i \in 1..Len(qd.v) |-> Str(<<>>)]
                   ELSE user_answers} :
    \E shown \in {IF Truthy(qd) THEN render_questions(qd.v, 1, fresh, w, <<>>)
                   ELSE [user_answers |-> fresh, widgets |-> <<>>,
                         exception |-> "none"]} :
    \E submit_rendered \in {Truthy(qd) /\ shown.exception = "none"} :
    \E graded \in {IF submit_clicked /\ submit_rendered
                    THEN grade(qd.v, shown.user_answers, reply.text)
                    ELSE [results |-> NoResults, exception |-> "none",
                          errors |-> {}]} :
    LET submitting == submit_clicked /\ submit_rendered
        called == generates \/ submitting
        gen_errors ==
            IF ~generates THEN {}
            ELSE reply.errors \cup extract_json_run(reply.text).errors
                    \cup (IF Truthy(qd) THEN {} ELSE {"Failed to parse AI response"})
    IN  /\ quiz_data' = qd
        /\ user_answers' = shown.user_answers
        /\ widgets' = shown.widgets
        /\ screen' = [questions |-> Len(shown.widgets),
                      submit |-> submit_rendered,
                      errors |-> gen_errors \cup graded.errors
                                 \cup (IF submitting THEN reply.errors ELSE {}),
                      results |-> graded.results,
                      exception |-> IF shown.exception # "none" THEN shown.exception
                                    ELSE graded.exception]
        /\ run' = [op |-> op,
                   notes |-> quiz_text,
                   calls |-> IF called THEN reply.calls ELSE 0,
                   reply |-> IF called THEN reply.text ELSE <<>>,
                   api |-> IF ~called THEN "none"
                           ELSE IF outcome.ok THEN "ok" ELSE "failed",
                   parse |-> IF called THEN ParseKind(reply.text) ELSE "none"]
        /\ UNCHANGED <<probe, chat_history, chat_run>>

-----------------------------------------------------------------------------
(* Inputs: notes, and the replies the model is tried with *)

NumQuestions == 5
NumOptions == 4

Labels == <<"A", "B", "C", "D">>
Option(c) == Str(<<c, ")", " ", "x">>)
Options4 == [i \in 1..NumOptions |-> Option(Labels[i])]
Question(n, opts) ==
    Dict(<<[k |-> "question", v |-> Str(<<"q", DigitChar(n)>>)],
           [k |-> "options", v |-> List(opts)]>>)
Mapping(key, value) == Dict(<<[k |-> key, v |-> value]>>)
Letter(c) == Str(<<c>>)

\* five questions of four labelled options each, as the prompt asks
Quiz5 == [i \in 1..NumQuestions |-> Question(i, Options4)]
\* too few questions
Quiz2 == <<Question(1, Options4), Question(2, Options4)>>
\* one question, three options, the first without a letter label
QuizOdd == <<Question(1, <<Str(<<"1", ")">>), Str(<<" ", "b", ")">>), Option("C")>>)>>

Bare(array) == <<LB>> \o array \o <<RB>>
Wrapped(array) == <<W, LB>> \o array \o <<RB, W>>

QuizReplies ==
    { Wrapped(Quiz5), Bare(Quiz2), Bare(QuizOdd),
      Bare(<<Question(1, Options4), Num(1)>>),
      Bare(<<Mapping("question", Str(<<"q">>))>>),
      Bare(<<Mapping("options", List(Options4))>>),
      <<LB, Num(1), RB, W>> \o Bare(Quiz5),
      <<LB, Question(1, Options4)>> }

KeyReplies ==
    { Wrapped(<<Letter("A"), Letter("B"), Letter("C"), Letter("D"), Letter("A")>>),
      Bare(<<Str(<<"a", ")">>), Str(<<" ", "B", ".">>), Str(<<"(", "C">>),
             Str(<<")", "d", " ">>), Letter("X")>>),
      Bare([i \in 1..NumQuestions |-> Mapping(DigitChar(i), Letter("B"))]),
      Bare(<<Letter("B"), Letter("A")>>),
      Bare(<<Mapping("1", Letter("B")), Mapping("2", Letter("A"))>>),
      Bare(<<Letter("C")>>),
      Bare(<<Letter("?")>>),
      Bare(<<Mapping("1", Letter("A")), Letter("B")>>),
      Bare(<<Letter("A"), Mapping("2", Letter("B"))>>),
      Bare(<<Dict(<<>>)>>),
      <<LB, LB, Letter("A"), Letter("B"), RB, RB>>,
      Bare([i \in 1..NumQuestions + 1 |-> Letter("A")]) }

CorruptReplies ==
    { <<>>, <<W>>, <<RB, W, LB>>, <<LB, W, RB>>, <<LB, Letter("A"), W, Letter("B"), RB>>,
      Bare(<<>>) }

Replies == QuizReplies \cup KeyReplies \cup CorruptReplies

ApiError == [ok |-> FALSE, text |-> <<>>]
Outcomes == {ApiError} \cup {[ok |-> TRUE, text |-> text] : text \in Replies}

Notes == {<<>>, <<" ", "\n">>, <<" ", "n", "\n">>}

-----------------------------------------------------------------------------
(* The session *)

\* lines 179-181, the first run of the page
FirstRun ==
    /\ quiz_data = None
    /\ user_answers = <<>>
    /\ widgets = <<>>
    /\ screen = Blank
    /\ run = [op |-> "open", notes |-> <<>>, calls |-> 0, reply |-> <<>>,
              api |-> "none", parse |-> "none"]
    /\ selections = 0
    /\ chat_history = <<>>
    /\ chat_run = [op |-> "open", calls |-> 0, errors |-> {}, transcript |-> None]

Init == FirstRun /\ probe = None

\* a click on "Generate Quiz", line 177, with quiz_text in the text area
GenerateQuiz ==
    \E quiz_text \in Notes :
        \E outcome \in IF strip(quiz_text) = <<>> THEN {ApiError} ELSE Outcomes :
            /\ QuizPage("generate", TRUE, quiz_text, FALSE, outcome, widgets)
            /\ UNCHANGED selections

\* how many times the user changes a radio in one session
MaxSelections == 1

\* the user picks another option of a rendered radio, lines 212-216
SelectOption ==
    \E idx \in 1..Len(widgets) :
        \E k \in 1..Len(widgets[idx].options) :
            /\ k # widgets[idx].index
            /\ selections < MaxSelections
            /\ selections' = selections + 1
            /\ QuizPage("select", FALSE, <<>>, FALSE, ApiError,
                        [widgets EXCEPT ![idx].index = k])

\* the user clicks the option a rendered radio already holds: the run, if the
\* browser starts one, gets the widgets as they are, lines 212-216
ReselectOption ==
    \E idx \in 1..Len(widgets) :
        /\ widgets[idx].index # 0
        /\ QuizPage("select", FALSE, <<>>, FALSE, ApiError,
                    [widgets EXCEPT ![idx].index = widgets[idx].index])
        /\ UNCHANGED selections

\* a click on "Submit Quiz", line 218, which the run before has rendered
SubmitQuiz ==
    /\ screen.submit
    /\ \E outcome \in Outcomes :
            /\ QuizPage("submit", FALSE, <<>>, TRUE, outcome, widgets)
            /\ UNCHANGED selections

Next == GenerateQuiz \/ SelectOption \/ ReselectOption \/ SubmitQuiz

Spec == Init /\ [][Next]_vars

-----------------------------------------------------------------------------
(* The scorer and the feedback band on their own: probe holds the arguments *)
(* of one call and, once the call is made, what it returned.                *)

MaxLen == 2
MaxTotal == 20
MaxProse == 2
MaxKey == 2

Letters == {"", "A", "B", "C", "D"}
LetterSeqs == UNION {[1..n -> Letters] : n \in 0..MaxLen}

ExampleUser == <<"A", "B", "C", "D", "A">>
ExampleCorrect == <<"A", "B", "X", "D", "B">>

ScoreCall(u, c) ==
    [fn |-> "calculate_score", user |-> u, correct |-> c,
     done |-> FALSE, out |-> 0, exception |-> "none"]
FeedbackCall(s, n) ==
    [fn |-> "feedback", score |-> s, total |-> n, done |-> FALSE, out |-> ""]

\* prose around the array of a reply: words and stray brackets
Prose == UNION {[1..n -> {W, LB, RB}] : n \in 0..MaxProse}

\* well-formed arrays: empty, of letters, nested, of mappings, of questions
Arrays ==
    {<<>>,
     <<Letter("A")>>,
     <<Letter("A"), Letter("B")>>,
     <<List(<<Letter("A")>>), List(<<>>)>>,
     <<Mapping("1", Letter("B")), Mapping("2", Letter("A"))>>,
     Quiz2}

\* the text of a JSON array: "[", its elements, "]", nested arrays alike
RECURSIVE json_dumps_elems(_, _)
json_dumps_elems(array, i) ==
    IF i > Len(array) THEN <<>>
    ELSE (IF array[i].t = "list"
          THEN <<LB>> \o json_dumps_elems(array[i].v, 1) \o <<RB>>
          ELSE <<array[i]>>)
         \o json_dumps_elems(array, i + 1)
json_dumps(array) == <<LB>> \o json_dumps_elems(array, 1) \o <<RB>>

ExtractCall(prefix, array, suffix) ==
    [fn |-> "extract_json", prefix |-> prefix, array |-> array,
     suffix |-> suffix, done |-> FALSE, out |-> None]

\* letter-like tokens of an answer key with the letter each stands for: a
\* letter A-D in either case, bare, with a closing parenthesis or a period
\* after it, or with blanks around it
KeyLetters ==
    {<<"A", "A">>, <<"B", "B">>, <<"C", "C">>, <<"D", "D">>,
     <<"a", "A">>, <<"b", "B">>, <<"c", "C">>, <<"d", "D">>}
Decorated(c) == {<<c>>, <<c, ")">>, <<c, ".">>, <<" ", c, " ">>}
LetterLike ==
    UNION {{[raw |-> Str(s), letter |-> p[2]] : s \in Decorated(p[1])} : p \in KeyLetters}
KeyValues == UNION {[1..n -> LetterLike] : n \in 1..MaxKey}

ExampleKey == <<[raw |-> Letter("B"), letter |-> "B"], [raw |-> Letter("A"), letter |-> "A"]>>

KeyCall(values) ==
    [fn |-> "answer_key", values |-> values, done |-> FALSE,
     mapped |-> [exception |-> "none", value |-> <<>>],
     flat |-> [exception |-> "none", value |-> <<>>]]

InitFn ==
    /\ FirstRun
    /\ probe \in {ScoreCall(u, c) : u \in LetterSeqs, c \in LetterSeqs}
            \cup {ScoreCall(ExampleUser, ExampleCorrect)}
            \cup UNION {{FeedbackCall(s, n) : s \in 0..n} : n \in 1..MaxTotal}
            \cup {ExtractCall(p, a, s) : p \in Prose, a \in Arrays, s \in Prose}
            \cup {KeyCall(v) : v \in KeyValues}

\* line 238; the call returns, lines 25-26 raise nothing
ApplyScore ==
    /\ probe.fn = "calculate_score" /\ ~probe.done
    /\ probe' = [probe EXCEPT !.done = TRUE,
                               !.out = calculate_score(probe.user, probe.correct)]
    /\ UNCHANGED <<quiz_data, user_answers, widgets, screen, run, selections, chat_history, chat_run>>

\* lines 253-261
ApplyFeedback ==
    /\ probe.fn = "feedback" /\ ~probe.done
    /\ probe' = [probe EXCEPT !.done = TRUE,
                               !.out = feedback(probe.score, probe.total)]
    /\ UNCHANGED <<quiz_data, user_answers, widgets, screen, run, selections, chat_history, chat_run>>

\* lines 64-71 on prefix + array + suffix
ApplyExtract ==
    /\ probe.fn = "extract_json" /\ ~probe.done
    /\ probe' = [probe EXCEPT
                    !.done = TRUE,
                    !.out = extract_json(probe.prefix \o json_dumps(probe.array)
                                         \o probe.suffix)]
    /\ UNCHANGED <<quiz_data, user_answers, widgets, screen, run, selections, chat_history, chat_run>>

\* lines 230-235 on the key as an array of single-key mappings, and on the
\* flat array of the same values
ApplyAnswerKey ==
    /\ probe.fn = "answer_key" /\ ~probe.done
    /\ probe' = [probe EXCEPT
                    !.done = TRUE,
                    !.mapped = answer_key([i \in 1..Len(probe.values) |->
                                   Mapping(DigitChar(i), probe.values[i].raw)]),
                    !.flat = answer_key([i \in 1..Len(probe.values) |->
                                   probe.values[i].raw])]
    /\ UNCHANGED <<quiz_data, user_answers, widgets, screen, run, selections, chat_history, chat_run>>

NextFn == ApplyScore \/ ApplyFeedback \/ ApplyExtract \/ ApplyAnswerKey

SpecFn == InitFn /\ [][NextFn]_vars

-----------------------------------------------------------------------------
(* The chat page, lines 102-145.  Messages and replies are plain text.      *)

User == <<"u", "s", "e", "r">>
Assistant == <<"a", "s", "s", "i", "s", "t", "a", "n", "t">>

\* str.capitalize(): the first character in upper case, the rest in lower
\* case, over the characters of the two roles
ToUpper(c) ==
    CASE c = "u" -> "U" [] c = "a" -> "A" [] c = "s" -> "S" [] c = "e" -> "E"
      [] c = "r" -> "R" [] c = "i" -> "I" [] c = "t" -> "T" [] c = "n" -> "N"
      [] OTHER -> c
ToLower(c) ==
    CASE c = "U" -> "u" [] c = "A" -> "a" [] c = "S" -> "s" [] c = "E" -> "e"
      [] c = "R" -> "r" [] c = "I" -> "i" [] c = "T" -> "t" [] c = "N" -> "n"
      [] OTHER -> c
capitalize(s) ==
    IF s = <<>> THEN s
    ELSE <<ToUpper(s[1])>> \o [i \in 1..Len(s) - 1 |-> ToLower(s[i + 1])]

\* "\n".join(lines)
RECURSIVE join(_, _)
join(lines, i) ==
    IF i > Len(lines) THEN <<>>
    ELSE IF i = Len(lines) THEN lines[i]
    ELSE lines[i] \o <<"\n">> \o join(lines, i + 1)

\* lines 142-143: the text handed to save_text_as_pdf
transcript(history) ==
    join([i \in 1..Len(history) |->
            capitalize(history[i].role) \o <<":", " ">> \o history[i].content], 1)

\* a turn that keeps no reply of a call that failed
chat_turn_skip_failed(history, user_input, reply) ==
    IF reply.errors # {}
    THEN Append(history, [role |-> User, content |-> user_input])
    ELSE Append(Append(history, [role |-> User, content |-> user_input]),
                [role |-> Assistant, content |-> reply.text])

\* lines 121-122 and 139-140: the two appends of a turn
chat_turn(history, user_input, reply) ==
    Append(Append(history, [role |-> User, content |-> user_input]),
           [role |-> Assistant, content |-> reply.text])

\* what the user types, and what the model call of a turn comes back with
ChatInputs == {<<"h", "i">>, <<"?">>}
ChatOutcomes ==
    {ApiError,
     [ok |-> TRUE, text |-> <<"o", "k">>],
     [ok |-> TRUE, text |-> <<"a", "\n", "b">>]}

\* how many turns one chat is followed for
MaxTurns == 3

\* a message sent from st.chat_input, lines 119-145
ChatTurn ==
    /\ Len(chat_history) < 2 * MaxTurns
    /\ \E user_input \in ChatInputs, outcome \in ChatOutcomes :
        \E reply \in {call_gemini_api(outcome)} :
        \E history \in {chat_turn(chat_history, user_input, reply)} :
            /\ chat_history' = history
            /\ chat_run' = [op |-> "turn", calls |-> reply.calls,
                            errors |-> reply.errors,
                            transcript |-> Str(transcript(history))]
    /\ UNCHANGED <<quiz_data, user_answers, widgets, screen, run, selections, probe>>

\* a click on "Clear Chat", lines 106-107; st.chat_input returns None
ClearChat ==
    /\ chat_history' = <<>>
    /\ chat_run' = [op |-> "clear", calls |-> 0, errors |-> {}, transcript |-> None]
    /\ UNCHANGED <<quiz_data, user_answers, widgets, screen, run, selections, probe>>

NextChat == ChatTurn \/ ClearChat

SpecChat == Init /\ [][NextChat]_vars

-----------------------------------------------------------------------------
(* Properties *)

Questions == IF Truthy(quiz_data) THEN quiz_data.v ELSE <<>>
Results == screen.results
Graded == Results # NoResults
Phase ==
    IF Graded THEN "Graded"
    ELSE IF Truthy(quiz_data) /\ screen.submit THEN "Ready"
    ELSE "Empty"

\* the last run was a generation whose reply became the question set
Accepted == run.op = "generate" /\ run.calls = 1 /\ Truthy(quiz_data)

WellFormed(q) ==
    /\ q.t = "dict"
    /\ {"question", "options"} \subseteq Keys(q)
    /\ Subscript(q, "question").value.t = "str"
    /\ Subscript(q, "options").value.t = "list"
    /\ Len(Subscript(q, "options").value.v) = NumOptions

\* the question set is what the prompt asks for: five questions with a text
\* and four options each
WellFormedQuiz ==
    /\ Len(Questions) = NumQuestions
    /\ \A i \in 1..Len(Questions) : WellFormed(Questions[i])

\* C1: after every accepted generation the answer list is as long as the
\* question list and every entry of it is the empty string (stated for the
\* replies that hold a well-formed quiz).
C1_AnswersEmptyAfterGeneration ==
    (Accepted /\ WellFormedQuiz) =>
        /\ Len(user_answers) = Len(Questions)
        /\ \A i \in 1..Len(user_answers) : user_answers[i] = Str(<<>>)

\* C2: whenever questions are on the page, the quiz is exactly five
\* well-formed questions of four options each, all of them shown; any other
\* reply leaves no quiz on the page.
C2_LiveQuizWellFormed ==
    screen.questions > 0 =>
        (WellFormedQuiz /\ screen.questions = NumQuestions)

\* C3: a generation whose model call fails, started with a quiz in the
\* session, leaves the question set and the answers as they were.
C3_ApiFailureKeepsQuiz ==
    [][(run'.op = "generate" /\ run'.api = "failed" /\ Truthy(quiz_data))
        => (quiz_data' = quiz_data /\ user_answers' = user_answers)]_vars

\* the last run was a submit whose reply held no array or no valid JSON
CorruptKey ==
    /\ run.op = "submit" /\ run.api = "ok"
    /\ run.parse \in {"no match", "decode error"}

\* C4: a submit whose answer-key reply is corrupt leaves the question set
\* and the answers as they were, shows no score and ends in Ready.
C4_CorruptKeyKeepsSession ==
    [][CorruptKey' =>
        /\ quiz_data' = quiz_data
        /\ user_answers' = user_answers
        /\ widgets' = widgets
        /\ ~Graded'
        /\ screen'.exception = "none"
        /\ "Failed to parse AI answers" \in screen'.errors
        /\ Phase' = "Ready"]_vars

C4_Witness ==
    /\ CorruptKey /\ run.parse = "decode error"
    /\ Len(Questions) = NumQuestions
    /\ selections > 0
    /\ user_answers[1] # Option("A")
    /\ Phase = "Ready"

\* C5: results are shown only for an answer key with as many entries as the
\* quiz has questions, so the key, the user letters and the questions of a
\* results block all have one length (stated for a well-formed quiz).
C5_GradedOnlyWithMatchingKey ==
    (Graded /\ WellFormedQuiz) =>
        /\ Len(Results.correct_letters) = Len(Questions)
        /\ Len(Results.user_letters) = Len(Questions)

\* C6: no run of the page ends in an exception: every model outcome ends in
\* a transition or in a reported failure.
C6_NoExceptionEscapes == screen.exception = "none"

\* C7: on sequences of equal length calculate_score returns the number of
\* positions at which the two agree; the example of the specification gives 3.
C7_ScoreCountsMatches ==
    (probe.fn = "calculate_score" /\ probe.done
        /\ Len(probe.user) = Len(probe.correct)) =>
        /\ probe.out = Cardinality({i \in 1..Len(probe.user) :
                                        probe.user[i] = probe.correct[i]})
        /\ (probe.user = ExampleUser /\ probe.correct = ExampleCorrect)
                => probe.out = 3

C7_Witness ==
    /\ probe.fn = "calculate_score" /\ probe.done
    /\ probe.user = ExampleUser /\ probe.correct = ExampleCorrect
    /\ probe.out = 3

\* C8: given sequences of unequal length the scorer signals an error and
\* returns no score.
C8_ScoreFailsOnLengthMismatch ==
    (probe.fn = "calculate_score" /\ probe.done
        /\ Len(probe.user) # Len(probe.correct)) =>
        probe.exception # "none"

\* C9: a question is marked Correct exactly when the user letter equals the
\* correct letter and that letter is not empty.
C9_CorrectOnlyIfAnswered ==
    Graded =>
        \A i \in 1..Len(Results.marks) :
            Results.marks[i] = "Correct" <=>
                /\ Results.user_letters[i] = Results.correct_letters[i]
                /\ Results.user_letters[i] # ""

\* C10: for 0 <= score <= total and total >= 1 the band is "perfect" iff
\* score = total, "good" iff score < total and 10*score >= 7*total, and
\* "needs practice" otherwise.
C10_FeedbackBands ==
    (probe.fn = "feedback" /\ probe.done) =>
        probe.out = IF probe.score = probe.total THEN "perfect"
                    ELSE IF 10 * probe.score >= 7 * probe.total THEN "good"
                    ELSE "needs practice"

C10_Witness ==
    /\ probe.fn = "feedback" /\ probe.done
    /\ probe.score = 7 /\ probe.total = 10 /\ probe.out = "good"

\* C11: for every well-formed JSON array and every prose before and after it,
\* prose with "[" or "]" in it included, extract_json of prefix + array +
\* suffix returns the array.
C11_ExtractionRoundTrip ==
    (probe.fn = "extract_json" /\ probe.done) => probe.out = List(probe.array)

\* C12: an answer key of single-key mappings with letter-like values
\* normalises to those letters, upper-cased, in order and of the same length,
\* and to the same key as the flat array of the same values.
C12_KeyFlattening ==
    (probe.fn = "answer_key" /\ probe.done) =>
        /\ probe.mapped.exception = "none"
        /\ probe.mapped.value = [i \in 1..Len(probe.values) |-> probe.values[i].letter]
        /\ probe.mapped = probe.flat

\* the last run was started by a click on "Generate Quiz" with notes that
\* are empty or blank
BlankGenerate == run.op = "generate" /\ strip(run.notes) = <<>>

\* C13: every generation with notes that are not blank and every submit
\* makes exactly one model call, also when the call fails, and the results
\* shown after a submit are those of the reply to that submit's own call.
C13_OneCallPerAction ==
    /\ (run.op = "generate" /\ ~BlankGenerate) => run.calls = 1
    /\ run.op = "submit" => run.calls = 1
    /\ (run.op = "submit" /\ Graded) =>
            Results = grade(Questions, user_answers, run.reply).results

C13_Witness ==
    /\ run.op = "submit" /\ run.calls = 1
    /\ Graded /\ Results.score > 0
    /\ Results = grade(Questions, user_answers, run.reply).results

\* C14: the question set changes only in a run that generates, which stores
\* what it parsed from its reply in place of the whole set; a selection, a
\* submit and the display of the results leave it as it was.
C14_QuestionsChangeOnlyByGenerate ==
    [][/\ quiz_data' # quiz_data =>
            /\ run'.op = "generate" /\ run'.calls = 1
            /\ quiz_data' = extract_json(run'.reply)
       /\ run'.op \in {"select", "submit"} => quiz_data' = quiz_data]_vars

C14_Witness ==
    /\ run.op = "submit" /\ Graded
    /\ selections > 0
    /\ Questions = Quiz5

\* C15: a click on a radio leaves the question set and the length of the
\* answer list as they were, changes at most one radio, stores the full
\* option string of every rendered radio and leaves the entries of the
\* radios that did not change as they were; a click on the option a radio
\* already holds leaves question set, answers and radios unchanged.
C15_SelectionSetsEntry ==
    [][run'.op = "select" =>
        /\ quiz_data' = quiz_data
        /\ Len(user_answers') = Len(user_answers)
        /\ Len(widgets') = Len(widgets)
        /\ Cardinality({j \in 1..Len(widgets) : widgets'[j] # widgets[j]}) <= 1
        /\ \A j \in 1..Len(widgets') :
                widgets'[j].index # 0 =>
                    user_answers'[j] =
                        Subscript(Questions[j], "options").value.v[widgets'[j].index]
        /\ \A j \in 1..Len(user_answers) :
                (j > Len(widgets) \/ widgets'[j] = widgets[j]) =>
                    user_answers'[j] = user_answers[j]
        /\ widgets' = widgets => user_answers' = user_answers]_vars

C15_Witness ==
    /\ run.op = "select" /\ selections > 0
    /\ Questions = Quiz5
    /\ user_answers = <<Option("A"), Option("C"), Option("A"), Option("A"), Option("A")>>

\* C16: a click on "Generate Quiz" with empty or blank notes makes no model
\* call and leaves the question set, the answers and the radios as they were.
C16_BlankNotesNoTransition ==
    [][BlankGenerate' =>
        /\ run'.calls = 0
        /\ quiz_data' = quiz_data
        /\ user_answers' = user_answers
        /\ widgets' = widgets]_vars

C16_Witness ==
    /\ BlankGenerate /\ run.notes = <<" ", "\n">>
    /\ run.calls = 0
    /\ Questions = Quiz5
    /\ selections > 0 /\ user_answers[1] # Option("A")

\* C18: a results block shows a score between 0 and its total, and the
\* total is the number of entries of the normalised answer key, whatever
\* the lengths of the answer list and of the key.
C18_ScoreWithinTotal ==
    Graded =>
        /\ 0 <= Results.score
        /\ Results.score <= Results.total
        /\ Results.total = Len(Results.correct_letters)

C18_Witness ==
    /\ Graded
    /\ Len(Results.user_letters) > Results.total
    /\ Results.score > 0

\* "User: <content>" and "Assistant: <content>", the entry of message i
Entry(i) ==
    (IF i % 2 = 1 THEN <<"U", "s", "e", "r">>
     ELSE <<"A", "s", "s", "i", "s", "t", "a", "n", "t">>)
        \o <<":", " ">> \o chat_history[i].content

C12_Witness ==
    /\ probe.fn = "answer_key" /\ probe.done
    /\ probe.values = ExampleKey
    /\ probe.mapped.value = <<"B", "A">>

=============================================================================
